---- MODULE Spec2Model ----
(***************************************************************************)
(* planets.py: a script run inside a 3D host application.  One run is the  *)
(* top-level statement sequence of the file (lines 165-247); the state is  *)
(* the host document the script mutates (objects, selection, materials,    *)
(* actions, scene and render settings, 3D cursor) together with the state  *)
(* of Python's random generator.  The script may be run again on the       *)
(* document the previous run left behind.                                  *)
(*                                                                         *)
(* Host operations are modelled by their documented effect:                *)
(*   - an "add" operator deselects everything, then adds the new object    *)
(*     selected and active;                                                *)
(*   - a datablock that is given a name already in use gets the first free *)
(*     numeric suffix (".001", ".002", ...);                               *)
(*   - object.delete removes every selected object;                        *)
(*   - origin_set(type="ORIGIN_CURSOR") moves the origin of every selected *)
(*     object to the 3D cursor and leaves its geometry where it is;        *)
(*   - render.render raises (ending the script) when the scene holds no    *)
(*     camera object.                                                      *)
(*                                                                         *)
(* Reals are fixed-point integers: a length or a colour channel x is held  *)
(* as x * Scale, an angle a as (a / pi) * Scale.                           *)
(***************************************************************************)
EXTENDS Integers, Sequences, FiniteSets, TLC

\* ---------------------------------------------------------------- bounds
\* Resolution of the random source: random() yields k / RandDen.
RandDen == 2
\* The generator's output stream repeats with this period.
StreamPeriod == 3
\* Number of times the script is run on the same document.
MaxRuns == 3

\* ------------------------------------------------------ program constants
N_PLANETS == 6
START_FRAME == 1
END_FRAME == 400
SUN_RADIUS == 12

Scale == 100 * RandDen

Vec(x, y, z) == <<x * Scale, y * Scale, z * Scale>>
ORIGIN == Vec(0, 0, 0)

start_location == Vec(20, -10, 5)
end_location == Vec(200, -80, 90)
start_lens == 35
end_lens == 35

\* ------------------------------------------------------------ random()
\* Outcomes of one random() call, as numerators over RandDen.  random() is
\* below 1, but at its largest value the floating-point sums 1 + random()*4,
\* 30 + n*12 + (random()*4 - 2) and 2 + random()*2 round to the upper end of
\* their range; the numerator RandDen stands for that outcome.
RandVals == 0 .. RandDen

\* The generator states the interpreter may start in: one output stream each.
Streams == [1 .. StreamPeriod -> RandVals]

\* Value (times Scale) of the i-th call (i = 0, 1, ...) on stream s.
RandomAt(s, i) == s[(i % StreamPeriod) + 1] * 100

\* ------------------------------------------------------ string formatting
Digit == <<"0", "1", "2", "3", "4", "5", "6", "7", "8", "9">>

\* "{:02d}".format(n) for 0 <= n <= 99
Format02d(n) == Digit[(n \div 10) + 1] \o Digit[(n % 10) + 1]

PlanetName(n) == "Planet-" \o Format02d(n)
RadiusName(n) == "Radius-" \o Format02d(n)
PlanetMatName(n) == "PlanetMat-" \o Format02d(n)

\* ------------------------------------------------------- host: ID naming
\* ".{:03d}".format(i) for 0 <= i <= 999
Suffix(i) == "." \o Digit[(i \div 100) + 1] \o Format02d(i % 100)

RECURSIVE FirstFree(_, _, _)
FirstFree(base, taken, i) ==
    IF (base \o Suffix(i)) \notin taken THEN i ELSE FirstFree(base, taken, i + 1)

\* Name the host gives a datablock asked to be called base when the names in
\* taken are in use.
UniqueName(base, taken) ==
    IF base \notin taken THEN base ELSE base \o Suffix(FirstFree(base, taken, 1))

\* ------------------------------------------------------- host: datablocks
NoKeys == {}

BlankObject ==
    [type |-> "EMPTY", shape |-> "NONE", radius |-> 0, minor |-> 0,
     location |-> ORIGIN, center |-> ORIGIN, rotation |-> <<0, 0, 0>>,
     smooth |-> FALSE, material |-> "", action |-> "",
     lens |-> 0, clip_start |-> 0, clip_end |-> 0,
     loc_keys |-> NoKeys, lens_keys |-> NoKeys]

\* keyframe_insert / keyframe_points.insert: one keyframe per frame
KeyInsert(keys, frame, value, interp) ==
    {k \in keys : k.frame # frame}
        \cup {[frame |-> frame, value |-> value, interpolation |-> interp]}

\* f with key k removed / added
Without(f, ks) == [x \in (DOMAIN f) \ ks |-> f[x]]
With(f, k, v) == [x \in (DOMAIN f) \cup {k} |-> IF x = k THEN v ELSE f[x]]

VARIABLES
    pc,         \* next top-level statement of the running script
    n,          \* loop variable of the range(N_PLANETS) loops
    run,        \* number of the current run
    seed,       \* output stream of the random generator
    draws,      \* random() calls made so far
    objects,    \* bpy.data.objects: name -> object
    selected,   \* names of the selected objects
    active,     \* name of the active object, "" when none
    materials,  \* bpy.data.materials: name -> material
    actions,    \* actions made by bpy.data.actions.new: name -> action
    scene,      \* scene, render and viewport settings the script writes
    cursor,     \* location of the 3D cursor
    renders,    \* animation renders completed
    steps       \* statements the current run has executed, in order

vars == <<pc, n, run, seed, draws, objects, selected, active, materials,
          actions, scene, cursor, renders, steps>>

\* ------------------------------------------------------ initial documents
DefaultCamera ==
    [BlankObject EXCEPT !.type = "CAMERA", !.location = Vec(7, -7, 5),
                        !.rotation = <<64, 0, 47>>, !.lens = 50,
                        !.clip_start = Scale \div 10, !.clip_end = 100 * Scale]

DefaultCube ==
    [BlankObject EXCEPT !.type = "MESH", !.shape = "CUBE", !.radius = Scale,
                        !.material = "Material"]

SunLight == [BlankObject EXCEPT !.type = "LIGHT", !.location = Vec(4, 1, 6)]

DefaultMaterial ==
    [color |-> <<80 * RandDen, 80 * RandDen, 80 * RandDen, Scale>>, strength |-> 0,
     nodes |-> <<"ShaderNodeBsdfPrincipled", "ShaderNodeOutputMaterial">>]

DefaultScene ==
    [world_color |-> <<5 * RandDen, 5 * RandDen, 5 * RandDen, Scale>>,
     engine |-> "BLENDER_EEVEE", use_bloom |-> FALSE,
     frame_start |-> 1, frame_end |-> 250, frame_current |-> 1,
     shading |-> "SOLID", show_floor |-> TRUE, show_axis_x |-> TRUE,
     show_axis_y |-> TRUE, show_cursor |-> TRUE, show_object_origins |-> TRUE,
     file_format |-> "PNG", ffmpeg_format |-> "MKV", ffmpeg_codec |-> "H264",
     constant_rate_factor |-> "MEDIUM", filepath |-> "/tmp/",
     resolution_x |-> 1920, resolution_y |-> 1080,
     resolution_percentage |-> 100, fps |-> 24]

\* Documents the script is started on: the startup cube, with or without a
\* camera called "Camera", a camera of another name, and a light called "Sun".
InitialObjects ==
    { [nm \in {"Cube"} \cup cams \cup suns |->
          IF nm = "Cube" THEN DefaultCube
          ELSE IF nm = "Sun" THEN SunLight
          ELSE DefaultCamera] :
      cams \in SUBSET {"Camera", "Shot"}, suns \in SUBSET {"Sun"} }

InitialCursors == {ORIGIN, Vec(1, 0, 0)}

Init ==
    /\ pc = "setup_scene"
    /\ n = 0
    /\ run = 1
    /\ seed \in Streams
    /\ draws = 0
    /\ objects \in InitialObjects
    /\ selected \in {{}, {"Cube"}}
    /\ active = ""
    /\ materials = [nm \in {"Material"} |-> DefaultMaterial]
    /\ actions = [nm \in {} |-> {}]
    /\ scene = DefaultScene
    /\ cursor \in InitialCursors
    /\ renders = 0
    /\ steps = <<>>

\* ------------------------------------------------------- settings (6-26)
setup_render_settings(sc, output_path, test_render) ==
    [sc EXCEPT !.engine = "BLENDER_EEVEE",
               !.file_format = "FFMPEG",
               !.ffmpeg_format = "MPEG4",
               !.ffmpeg_codec = "H264",
               !.constant_rate_factor = "MEDIUM",
               !.filepath = output_path,
               !.resolution_x = IF test_render THEN 960 ELSE 1920,
               !.resolution_y = IF test_render THEN 540 ELSE 1080,
               !.resolution_percentage = IF test_render THEN 50 ELSE 100,
               !.fps = 24]

setup_scene(sc) ==
    [sc EXCEPT !.world_color = <<0, 0, 0, Scale>>,
               !.engine = "BLENDER_EEVEE",
               !.use_bloom = TRUE,
               !.frame_start = START_FRAME,
               !.frame_end = END_FRAME,
               !.frame_current = START_FRAME,
               !.shading = "RENDERED",
               !.show_floor = FALSE,
               !.show_axis_x = FALSE,
               !.show_axis_y = FALSE,
               !.show_cursor = FALSE,
               !.show_object_origins = FALSE]

SetupScene ==
    /\ pc = "setup_scene"
    /\ steps' = Append(steps, "setup_scene")
    /\ scene' = setup_scene(scene)
    /\ pc' = "setup_render"
    /\ UNCHANGED <<n, run, seed, draws, objects, selected, active, materials,
                   actions, cursor, renders>>

SetupRenderSettings ==
    /\ pc = "setup_render"
    /\ steps' = Append(steps, "setup_render_settings")
    /\ scene' = setup_render_settings(scene, "video.mp4", FALSE)
    /\ pc' = "camera"
    /\ UNCHANGED <<n, run, seed, draws, objects, selected, active, materials,
                   actions, cursor, renders>>

\* --------------------------------------------------------- camera (28-61)
adjust_camera_clipping(camera, clip_start, clip_end) ==
    [camera EXCEPT !.clip_start = clip_start, !.clip_end = clip_end]

\* The camera object once both pairs of keyframes are in.
AnimatedCamera(camera, start_frame, end_frame, start_loc, end_loc, lens0, lens1) ==
    LET c1 == [camera EXCEPT !.location = start_loc,
                             !.rotation = <<65, 0, 67>>,
                             !.lens = lens0]
        c2 == adjust_camera_clipping(c1, Scale \div 10, 5000 * Scale)
        c3 == [c2 EXCEPT
                 !.loc_keys = KeyInsert(@, start_frame, c2.location, "BEZIER"),
                 !.lens_keys = KeyInsert(@, start_frame, c2.lens, "BEZIER")]
        c4 == [c3 EXCEPT !.location = end_loc, !.lens = lens1]
    IN  [c4 EXCEPT
           !.loc_keys = KeyInsert(@, end_frame, c4.location, "BEZIER"),
           !.lens_keys = KeyInsert(@, end_frame, c4.lens, "BEZIER")]

setup_and_animate_camera(start_frame, end_frame, start_loc, end_loc, lens0, lens1) ==
    IF "Camera" \notin DOMAIN objects
    THEN \* camera_add: the new camera is the only selected object
         LET added == [DefaultCamera EXCEPT !.location = start_loc,
                                            !.rotation = <<0, 0, 0>>]
         IN  /\ objects' = With(objects, "Camera",
                                AnimatedCamera(added, start_frame, end_frame,
                                               start_loc, end_loc, lens0, lens1))
             /\ selected' = {"Camera"}
             /\ active' = "Camera"
    ELSE /\ objects' = [objects EXCEPT !["Camera"] =
                            AnimatedCamera(@, start_frame, end_frame,
                                           start_loc, end_loc, lens0, lens1)]
         /\ selected' = selected \cup {"Camera"}
         /\ active' = "Camera"

SetupAndAnimateCamera ==
    /\ pc = "camera"
    /\ steps' = Append(steps, "setup_and_animate_camera")
    /\ setup_and_animate_camera(START_FRAME, END_FRAME, start_location,
                                end_location, start_lens, end_lens)
    /\ pc' = "del_sun"
    /\ UNCHANGED <<n, run, seed, draws, materials, actions, scene, cursor, renders>>

\* ------------------------------------------------------ cleanup (121-127)
\* bpy.ops.object.delete: every selected object leaves the document
DeleteSelected(objs, sel) == Without(objs, sel)

delete_object(name) ==
    IF name \in DOMAIN objects
    THEN /\ objects' = DeleteSelected(objects, selected \cup {name})
         /\ selected' = {}
         /\ active' = IF active \in selected \cup {name} THEN "" ELSE active
    ELSE UNCHANGED <<objects, selected, active>>

DeleteSun ==
    /\ pc = "del_sun"
    /\ steps' = Append(steps, "delete_object " \o "Sun")
    /\ delete_object("Sun")
    /\ n' = 0
    /\ pc' = "del_planet"
    /\ UNCHANGED <<run, seed, draws, materials, actions, scene, cursor, renders>>

\* variant: the name is formatted without zero padding ("Planet-0")
DeletePlanet_unpadded ==
    /\ pc = "del_planet"
    /\ steps' = Append(steps, "delete_object " \o PlanetName(n))
    /\ delete_object("Planet-" \o Digit[n + 1])
    /\ pc' = "del_radius"
    /\ UNCHANGED <<n, run, seed, draws, materials, actions, scene, cursor, renders>>

DeletePlanet ==
    /\ pc = "del_planet"
    /\ steps' = Append(steps, "delete_object " \o PlanetName(n))
    /\ delete_object(PlanetName(n))
    /\ pc' = "del_radius"
    /\ UNCHANGED <<n, run, seed, draws, materials, actions, scene, cursor, renders>>

DeleteRadius ==
    /\ pc = "del_radius"
    /\ steps' = Append(steps, "delete_object " \o RadiusName(n))
    /\ delete_object(RadiusName(n))
    /\ n' = n + 1
    /\ pc' = IF n + 1 < N_PLANETS THEN "del_planet" ELSE "rm_materials"
    /\ UNCHANGED <<run, seed, draws, materials, actions, scene, cursor, renders>>

\* variant: the loop ends after its first removal
RemoveMaterial_once ==
    /\ pc = "rm_materials"
    /\ steps' = Append(steps, "materials.remove")
    /\ DOMAIN materials # {}
    /\ LET m == CHOOSE nm \in DOMAIN materials : TRUE
       IN  /\ materials' = Without(materials, {m})
           /\ objects' = [nm \in DOMAIN objects |->
                             IF objects[nm].material = m
                             THEN [objects[nm] EXCEPT !.material = ""]
                             ELSE objects[nm]]
    /\ pc' = "ring_mat"
    /\ UNCHANGED <<n, run, seed, draws, selected, active, actions, scene,
                   cursor, renders>>

\* for m in bpy.data.materials: bpy.data.materials.remove(m)
\* (a removed material leaves the slots that used it empty)
RemoveMaterial ==
    /\ pc = "rm_materials"
    /\ steps' = steps
    /\ DOMAIN materials # {}
    /\ LET m == CHOOSE nm \in DOMAIN materials : TRUE
       IN  /\ materials' = Without(materials, {m})
           /\ objects' = [nm \in DOMAIN objects |->
                             IF objects[nm].material = m
                             THEN [objects[nm] EXCEPT !.material = ""]
                             ELSE objects[nm]]
    /\ UNCHANGED <<pc, n, run, seed, draws, selected, active, actions, scene,
                   cursor, renders>>

RemoveMaterialsDone ==
    /\ pc = "rm_materials"
    /\ steps' = Append(steps, "materials.remove")
    /\ DOMAIN materials = {}
    /\ pc' = "ring_mat"
    /\ UNCHANGED <<n, run, seed, draws, objects, selected, active, materials,
                   actions, scene, cursor, renders>>

\* --------------------------------------------------- primitives (64-119)
\* State of the document after an "add" operator and the rename that follows
\* it: the object under the name it ends up with.
AddedName(objs, obj_name) == UniqueName(obj_name, DOMAIN objs)

create_sphere(objs, radius, distance_to_sun, obj_name) ==
    With(objs, AddedName(objs, obj_name),
         [BlankObject EXCEPT !.type = "MESH", !.shape = "SPHERE",
                             !.radius = radius,
                             !.location = <<distance_to_sun, 0, 0>>,
                             !.center = <<distance_to_sun, 0, 0>>,
                             !.smooth = TRUE])

create_torus(objs, radius, obj_name) ==
    With(objs, AddedName(objs, obj_name),
         [BlankObject EXCEPT !.type = "MESH", !.shape = "TORUS",
                             !.radius = radius,
                             !.minor = Scale \div 10,
                             !.location = ORIGIN,
                             !.center = ORIGIN,
                             !.smooth = TRUE])

MaterialName(mats, mat_name) == UniqueName(mat_name, DOMAIN mats)

create_emission_shader(mats, color, strength, mat_name) ==
    With(mats, MaterialName(mats, mat_name),
         [color |-> color, strength |-> strength,
          nodes |-> <<"ShaderNodeEmission", "ShaderNodeOutputMaterial">>])

\* obj.data.materials.append(mat)
AppendMaterial(objs, obj, mat) == [objs EXCEPT ![obj].material = mat]

\* bpy.ops.object.origin_set(type="ORIGIN_CURSOR"): acts on the selection
origin_set(objs, sel, cur) ==
    [nm \in DOMAIN objs |->
        IF nm \in sel THEN [objs[nm] EXCEPT !.location = cur] ELSE objs[nm]]

CreateRingMat ==
    /\ pc = "ring_mat"
    /\ steps' = Append(steps, "create " \o "RingMat")
    /\ materials' = create_emission_shader(materials,
                        <<Scale, Scale, Scale, Scale>>, 1, "RingMat")
    /\ n' = 0
    /\ pc' = "planet"
    /\ UNCHANGED <<run, seed, draws, objects, selected, active, actions, scene,
                   cursor, renders>>

\* ------------------------------------------------- planet loop (191-233)
\* r = 1 + random() * 4
PlanetRadius(x) == 1 * Scale + x * 4

\* variant: the offset that clears the sun is 10
PlanetDistance_near(i, x) == 10 * Scale + i * 12 * Scale + (x * 4 - 2 * Scale)

\* d = 30 + n * 12 + (random() * 4 - 2)
PlanetDistance(i, x) == 30 * Scale + i * 12 * Scale + (x * 4 - 2 * Scale)

\* variant: random() * 2 * pi, the fixed full turn left out
RotationEnd_partial(x) == x * 2

\* (2 + random() * 2) * pi, in units of pi / Scale
RotationEnd(x) == 2 * Scale + x * 2

\* The two keyframes of a planet's Z-rotation curve.
RotationKeys(v) ==
    KeyInsert(KeyInsert(NoKeys, START_FRAME, 0, "LINEAR"), END_FRAME, v, "LINEAR")

RotationAction(v) ==
    [data_path |-> "rotation_euler", index |-> 2, keyframe_points |-> RotationKeys(v)]

\* variant: the ring is made with the planet's radius
RingRadius_planet(r, d) == r

\* Major radius the orbit ring of a planet placed at distance d is made with.
RingRadius(r, d) == d

CreatePlanet ==
    /\ pc = "planet"
    /\ steps' = Append(steps, "create " \o PlanetName(n))
    /\ LET r  == PlanetRadius(RandomAt(seed, draws))
           d  == PlanetDistance(n, RandomAt(seed, draws + 1))
           planet == AddedName(objects, PlanetName(n))
           o1 == create_sphere(objects, r, d, PlanetName(n))
           mat == MaterialName(materials, PlanetMatName(n))
           o2 == AppendMaterial(o1, planet, mat)
           ring == AddedName(o2, RadiusName(n))
           o3 == AppendMaterial(create_torus(o2, RingRadius(r, d), RadiusName(n)),
                                ring, "RingMat")
           \* the torus is the selection; the planet is added to it
           o4 == origin_set(o3, {ring, planet}, cursor)
           act == UniqueName("RotationAction", DOMAIN actions)
           v  == RotationEnd(RandomAt(seed, draws + 4))
       IN  /\ materials' = create_emission_shader(materials,
                               <<RandomAt(seed, draws + 2),
                                 RandomAt(seed, draws + 3), Scale, Scale>>,
                               2, PlanetMatName(n))
           /\ objects' = [o4 EXCEPT ![planet].action = act]
           /\ actions' = With(actions, act, RotationAction(v))
           /\ selected' = {ring, planet}
           /\ active' = planet
    /\ draws' = draws + 5
    /\ n' = n + 1
    /\ pc' = IF n + 1 < N_PLANETS THEN "planet" ELSE "sun"
    /\ UNCHANGED <<run, seed, scene, cursor, renders>>

\* ------------------------------------------------------- sun (235-241)
CreateSun ==
    /\ pc = "sun"
    /\ steps' = Append(steps, "create " \o "Sun")
    /\ LET sun == AddedName(objects, "Sun")
           mat == MaterialName(materials, "SunMat")
       IN  /\ objects' = AppendMaterial(
                             create_sphere(objects, SUN_RADIUS * Scale, 0, "Sun"),
                             sun, mat)
           /\ materials' = create_emission_shader(materials,
                               <<Scale, 66 * RandDen, 8 * RandDen, Scale>>,
                               10, "SunMat")
           /\ selected' = {sun}
           /\ active' = sun
    /\ pc' = "render"
    /\ UNCHANGED <<n, run, seed, draws, actions, scene, cursor, renders>>

\* ---------------------------------------------------- render (243-247)
HasCamera == \E nm \in DOMAIN objects : objects[nm].type = "CAMERA"

Render ==
    /\ pc = "render"
    /\ steps' = Append(steps, "render")
    /\ HasCamera
    /\ renders' = renders + 1
    /\ pc' = "deselect"
    /\ UNCHANGED <<n, run, seed, draws, objects, selected, active, materials,
                   actions, scene, cursor>>

\* "Cannot render, no camera": the exception ends the script
RenderFails ==
    /\ pc = "render"
    /\ steps' = Append(steps, "render")
    /\ ~HasCamera
    /\ pc' = "aborted"
    /\ UNCHANGED <<n, run, seed, draws, objects, selected, active, materials,
                   actions, scene, cursor, renders>>

\* variant: the closing operator deletes the selection instead of clearing it
DeselectAll_delete ==
    /\ pc = "deselect"
    /\ steps' = Append(steps, "select_all")
    /\ objects' = DeleteSelected(objects, selected)
    /\ selected' = {}
    /\ pc' = "done"
    /\ UNCHANGED <<n, run, seed, draws, active, materials, actions,
                   scene, cursor, renders>>

DeselectAll ==
    /\ pc = "deselect"
    /\ steps' = Append(steps, "select_all")
    /\ selected' = {}
    /\ pc' = "done"
    /\ UNCHANGED <<n, run, seed, draws, objects, active, materials, actions,
                   scene, cursor, renders>>

\* The script is run again on the document as it stands.
RunAgain ==
    /\ pc \in {"done", "aborted"}
    /\ steps' = <<>>
    /\ run < MaxRuns
    /\ run' = run + 1
    /\ pc' = "setup_scene"
    /\ UNCHANGED <<n, seed, draws, objects, selected, active, materials,
                   actions, scene, cursor, renders>>

Next ==
    \/ SetupScene
    \/ SetupRenderSettings
    \/ SetupAndAnimateCamera
    \/ DeleteSun
    \/ DeletePlanet
    \/ DeleteRadius
    \/ RemoveMaterial
    \/ RemoveMaterialsDone
    \/ CreateRingMat
    \/ CreatePlanet
    \/ CreateSun
    \/ Render
    \/ RenderFails
    \/ DeselectAll
    \/ RunAgain

Spec == Init /\ [][Next]_vars

\* ------------------------------------------------------------ properties
Planets == 0 .. (N_PLANETS - 1)

\* The 13 object names one run creates.
ScriptNames == {"Sun"} \cup {PlanetName(i) : i \in Planets}
                       \cup {RadiusName(i) : i \in Planets}

\* Names the host would hand out were a script name already taken.
DuplicateNames == {nm \o Suffix(i) : nm \in ScriptNames, i \in 1 .. (MaxRuns + 1)}

RunEnded == pc \in {"done", "aborted"}

\* Planet i of the current run has been created.
Created(i) ==
    \/ pc = "planet" /\ i < n
    \/ pc \in {"sun", "render", "deselect", "done", "aborted"}

SunCreated == pc \in {"render", "deselect", "done", "aborted"}

KeyAt(keys, frame) == {k \in keys : k.frame = frame}

\* C1: after every complete run the scene holds an object under each of the
\* 13 names the script uses (the sphere or torus that run made) and no object
\* under a suffixed variant of any of them.
C1_OneObjectPerName ==
    pc = "done" =>
        /\ ScriptNames \subseteq DOMAIN objects
        /\ DOMAIN objects \cap DuplicateNames = {}
        /\ objects["Sun"].shape = "SPHERE"
        /\ \A i \in Planets : /\ objects[PlanetName(i)].shape = "SPHERE"
                              /\ objects[RadiusName(i)].shape = "TORUS"

\* a second complete run in a row, on a document that had a "Sun" before
C1_Witness == pc = "done" /\ run = 2 /\ renders = 2

\* C2 (as stated): after every run the document holds N_PLANETS + 2 materials
\* and N_PLANETS rotation actions.
C2_Original ==
    RunEnded => /\ Cardinality(DOMAIN materials) = N_PLANETS + 2
                /\ Cardinality(DOMAIN actions) = N_PLANETS

\* C2 (amended): after every run the document holds N_PLANETS + 2 materials,
\* the materials of the run before having been removed; the rotation actions
\* are never removed, so after run k it holds k * N_PLANETS of them.
C2_MaterialsReplacedActionsKept ==
    RunEnded => /\ Cardinality(DOMAIN materials) = N_PLANETS + 2
                /\ DOMAIN materials = {"RingMat", "SunMat"}
                                         \cup {PlanetMatName(i) : i \in Planets}
                /\ Cardinality(DOMAIN actions) = N_PLANETS * run

C2_Witness == RunEnded /\ run = 2 /\ Cardinality(DOMAIN actions) = 2 * N_PLANETS

\* Statements of one run up to the render call, in source order.
RECURSIVE CleanupSteps(_)
CleanupSteps(i) ==
    IF i = 0 THEN <<>>
    ELSE CleanupSteps(i - 1) \o <<"delete_object " \o PlanetName(i - 1),
                                  "delete_object " \o RadiusName(i - 1)>>

RECURSIVE PlanetSteps(_)
PlanetSteps(i) ==
    IF i = 0 THEN <<>>
    ELSE Append(PlanetSteps(i - 1), "create " \o PlanetName(i - 1))

StepsBeforeRender ==
    <<"setup_scene", "setup_render_settings", "setup_and_animate_camera",
      "delete_object Sun">>
        \o CleanupSteps(N_PLANETS)
        \o <<"materials.remove", "create RingMat">>
        \o PlanetSteps(N_PLANETS)
        \o <<"create Sun">>

IsPrefix(a, b) == Len(a) <= Len(b) /\ a = SubSeq(b, 1, Len(a))

C3_Order ==
    /\ IsPrefix(steps, StepsBeforeRender \o <<"render", "select_all">>)
    /\ pc = "render" =>
          /\ steps = StepsBeforeRender
          /\ scene = setup_render_settings(setup_scene(DefaultScene), "video.mp4", FALSE)
          /\ ScriptNames \subseteq DOMAIN objects
          /\ \A i \in Planets : objects[PlanetName(i)].action \in DOMAIN actions

C3_NothingAfterRender ==
    pc \in {"render", "deselect"} =>
        /\ objects' = objects
        /\ materials' = materials
        /\ actions' = actions

\* C3: the statements of a run execute in source order; the render call is
\* issued once the settings, the camera keyframing, the cleanup, all planets
\* and rings and the Sun are done, and from the render call to the end of the
\* run no object, material or action changes.
C3_RenderLast == []C3_Order /\ [][C3_NothingAfterRender]_vars

C3_Witness == pc = "done" /\ steps = StepsBeforeRender \o <<"render", "select_all">>

\* C4 (as stated): once setup_and_animate_camera has returned, the camera has
\* exactly two location and two lens keyframes, holding the start values at
\* START_FRAME and the end values at END_FRAME, and both the location and the
\* lens differ between the two frames.
C4_DollyZoom ==
    pc = "del_sun" =>
        LET cam == objects["Camera"]
        IN  /\ Cardinality(cam.loc_keys) = 2
            /\ Cardinality(cam.lens_keys) = 2
            /\ \E a \in KeyAt(cam.loc_keys, START_FRAME),
                  b \in KeyAt(cam.loc_keys, END_FRAME) :
                    a.value = start_location /\ b.value = end_location
                                             /\ a.value # b.value
            /\ \E a \in KeyAt(cam.lens_keys, START_FRAME),
                  b \in KeyAt(cam.lens_keys, END_FRAME) :
                    a.value = start_lens /\ b.value = end_lens
                                         /\ a.value # b.value

\* The name the cleanup statement at pc passes to delete_object.
DeleteTarget ==
    IF pc = "del_sun" THEN "Sun"
    ELSE IF pc = "del_planet" THEN PlanetName(n)
    ELSE RadiusName(n)

C5_Step ==
    pc \in {"del_sun", "del_planet", "del_radius"} =>
        IF DeleteTarget \in DOMAIN objects
        THEN objects' = Without(objects, {DeleteTarget})
        ELSE objects' = objects /\ selected' = selected

\* C5 (as stated): delete_object(name) removes the object called name and no
\* other object, whatever is selected; without such an object it changes
\* neither the scene nor the selection.
C5_DeletesOnlyNamed == [][C5_Step]_vars

\* C6 (as stated): when the render call is issued an object named "Camera"
\* carrying the keyframes of setup_and_animate_camera is in the scene.
C6_CameraAtRender ==
    pc = "render" =>
        /\ "Camera" \in DOMAIN objects
        /\ KeyAt(objects["Camera"].loc_keys, START_FRAME) # {}
        /\ KeyAt(objects["Camera"].loc_keys, END_FRAME) # {}
        /\ KeyAt(objects["Camera"].lens_keys, START_FRAME) # {}
        /\ KeyAt(objects["Camera"].lens_keys, END_FRAME) # {}

\* C7: the ring of every planet created is a torus centred on the world
\* origin whose major radius is the distance of the planet's sphere from the
\* origin, and each planet is at least 8 farther out than the one before it.
C7_RingThroughPlanet ==
    \A i \in Planets :
        Created(i) =>
            LET planet == objects[PlanetName(i)]
                ring == objects[RadiusName(i)]
            IN  /\ ring.shape = "TORUS"
                /\ ring.center = ORIGIN
                /\ planet.center[2] = 0 /\ planet.center[3] = 0
                /\ ring.radius = planet.center[1]
                /\ i > 0 =>
                     /\ ring.radius > objects[RadiusName(i - 1)].radius
                     /\ planet.center[1]
                          - objects[PlanetName(i - 1)].center[1] >= 8 * Scale

\* two neighbouring rings exactly 8 apart
C7_Witness ==
    /\ pc = "render"
    /\ \E i \in Planets \ {0} :
          objects[RadiusName(i)].radius
              - objects[RadiusName(i - 1)].radius = 8 * Scale

\* C8: every planet created has a radius in [1, 5] and a distance in
\* [28 + 12i, 32 + 12i], and its near side is farther from the origin than
\* the surface of the sun, a sphere of radius 12 about the origin.
C8_OutsideSun ==
    /\ \A i \in Planets :
          Created(i) =>
              LET r == objects[PlanetName(i)].radius
                  d == objects[PlanetName(i)].center[1]
              IN  /\ 1 * Scale <= r /\ r <= 5 * Scale
                  /\ (28 + 12 * i) * Scale <= d /\ d <= (32 + 12 * i) * Scale
                  /\ d - r > SUN_RADIUS * Scale
    /\ SunCreated => /\ objects["Sun"].radius = SUN_RADIUS * Scale
                     /\ objects["Sun"].center = ORIGIN

\* the largest planet at the smallest distance
C8_Witness ==
    /\ pc = "render"
    /\ objects[PlanetName(0)].radius = 5 * Scale
    /\ objects[PlanetName(0)].center[1] = 28 * Scale

\* C9 (as stated): the origin of every planet created is the world origin.
C9_OriginAtWorldOrigin ==
    \A i \in Planets : Created(i) => objects[PlanetName(i)].location = ORIGIN

\* C10: the Z-rotation curve of every planet created has exactly two
\* keyframes, both LINEAR: 0 at START_FRAME and a value between 2 pi and
\* 4 pi at END_FRAME.
C10_RotationKeys ==
    \A i \in Planets :
        Created(i) =>
            LET name == objects[PlanetName(i)].action
            IN  /\ name \in DOMAIN actions
                /\ actions[name].data_path = "rotation_euler"
                /\ actions[name].index = 2
                /\ Cardinality(actions[name].keyframe_points) = 2
                /\ \A k \in actions[name].keyframe_points :
                      k.interpolation = "LINEAR"
                /\ \E a \in KeyAt(actions[name].keyframe_points, START_FRAME) :
                      a.value = 0
                /\ \E b \in KeyAt(actions[name].keyframe_points, END_FRAME) :
                      2 * Scale <= b.value /\ b.value <= 4 * Scale

\* one planet turning once and another turning twice
C10_Witness ==
    /\ pc = "render"
    /\ \E i, j \in Planets :
          /\ \E k \in actions[objects[PlanetName(i)].action].keyframe_points :
                k.frame = END_FRAME /\ k.value = 2 * Scale
          /\ \E k \in actions[objects[PlanetName(j)].action].keyframe_points :
                k.frame = END_FRAME /\ k.value = 4 * Scale

====
